---- MODULE Spec2Model ----
(***************************************************************************)
(* A model of the gerrit-linter checker: the polling loop (Serve,          *)
(* processPendingChecks), the per-entry executor (executeCheck,            *)
(* checkChange) and the formatter dispatch (Format and the strategies).    *)
(* Go strings and byte slices are TLA+ strings; a nil byte slice is "".    *)
(***************************************************************************)
EXTENDS Naturals, Sequences, FiniteSets, TLC

(***************************************************************************)
(* Bounds of the model.                                                    *)
(***************************************************************************)
\* longest pending list the server returns in one poll
MaxPending == 2
\* most checker UUIDs owed on one pending entry
MaxUUIDs == 2
\* length of the long file names of revision 2/1
LongNameLen == 500

(***************************************************************************)
(* String helpers (package strings, fmt).                                  *)
(***************************************************************************)
\* the nil error
Nil == "<nil>"

RECURSIVE Repeat(_, _)
\* strings.Repeat
Repeat(s, n) ==
    IF n = 0 THEN ""
    ELSE IF n % 2 = 1 THEN s \o Repeat(s, n - 1)
    ELSE LET h == Repeat(s, n \div 2) IN h \o h

\* strings.HasPrefix
HasPrefix(s, p) == Len(s) >= Len(p) /\ SubSeq(s, 1, Len(p)) = p

\* strings.HasSuffix
HasSuffix(s, p) == Len(s) >= Len(p) /\ SubSeq(s, Len(s) - Len(p) + 1, Len(s)) = p

\* strings.TrimPrefix
TrimPrefix(s, p) == IF HasPrefix(s, p) THEN SubSeq(s, Len(p) + 1, Len(s)) ELSE s

\* strings.Index from position start on: where sep first occurs at or after
\* start, or 0
IndexFrom(s, sep, start) ==
    LET at == { i \in start..(Len(s) - Len(sep) + 1) : SubSeq(s, i, i + Len(sep) - 1) = sep }
    IN  IF at = {} THEN 0 ELSE CHOOSE i \in at : \A j \in at : i <= j

RECURSIVE SplitFrom(_, _, _)
\* the fields of s from position start on, where a field begins
SplitFrom(s, sep, start) ==
    LET i == IndexFrom(s, sep, start)
    IN  IF i = 0
        THEN << SubSeq(s, start, Len(s)) >>
        ELSE << SubSeq(s, start, i - 1) >> \o SplitFrom(s, sep, i + Len(sep))

\* strings.Split, for a non-empty separator
Split(s, sep) == SplitFrom(s, sep, 1)

RECURSIVE Join(_, _)
\* strings.Join
Join(elems, sep) ==
    IF Len(elems) = 0 THEN ""
    ELSE IF Len(elems) = 1 THEN elems[1]
    ELSE elems[1] \o sep \o Join(Tail(elems), sep)

\* strconv.Itoa, for the change and patch-set numbers of the model
Itoa(n) == << "0", "1", "2", "3", "4", "5", "6", "7", "8", "9" >>[n + 1]

\* the sequences that list every element of the finite set S exactly once
Orders(S) ==
    { o \in [1..Cardinality(S) -> S] : \A i, j \in 1..Cardinality(S) : o[i] = o[j] => i = j }

(***************************************************************************)
(* The checker UUID (cmd/checker/checker.go).                              *)
(***************************************************************************)
checkerScheme == "fmt"

\* the %x of sha1("gerrit-linter-test"), the repository of the tests
RepoHash == "7a0dbeef4577654987aae76771369dc0170931e5"

\* the uuid PostChecker builds: fmt.Sprintf("%s:%s-%x", checkerScheme, language, hash)
PostCheckerUUID(language, hash) == checkerScheme \o ":" \o language \o "-" \o hash

\* checkerLanguage with "exactly two fields" replaced by "at least two"
checkerLanguageLoose(checkerUUID) ==
    LET fields == Split(TrimPrefix(checkerUUID, checkerScheme \o ":"), "-")
    IN  IF Len(fields) < 2 THEN [lang |-> "", ok |-> FALSE]
        ELSE [lang |-> fields[1], ok |-> TRUE]

checkerLanguage(checkerUUID) ==
    LET fields == Split(TrimPrefix(checkerUUID, checkerScheme \o ":"), "-")
    IN  IF Len(fields) # 2 THEN [lang |-> "", ok |-> FALSE]
        ELSE [lang |-> fields[1], ok |-> TRUE]

(***************************************************************************)
(* status and its String method.                                           *)
(***************************************************************************)
statusUnset == 0
statusIrrelevant == 4
statusRunning == 1
statusFail == 2
statusSuccessful == 3

StatusString(s) ==
    CASE s = statusUnset -> "UNSET"
      [] s = statusIrrelevant -> "IRRELEVANT"
      [] s = statusRunning -> "RUNNING"
      [] s = statusFail -> "FAILED"
      [] s = statusSuccessful -> "SUCCESSFUL"

(***************************************************************************)
(* The formatter table (server.go).                                        *)
(***************************************************************************)
\* the binaries exec.LookPath finds when the process starts
InstalledBinaries == { "gofmt" }

LookPath(bin) == bin \in InstalledBinaries

\* the table after init(): the static entry and the tools that were found
formatters ==
    LET static == [l \in { "commitmsg" } |->
                     [Regex |-> "^/COMMIT_MSG$", Query |-> "",
                      Formatter |-> [kind |-> "commitMsgFormatter", Footer |-> ""]]]
        tool(re, q) == [Regex |-> re, Query |-> q,
                        Formatter |-> [kind |-> "toolFormatter", Footer |-> ""]]
        found == { l \in { "java", "bzl", "go" } :
                     LookPath(CASE l = "java" -> "google-java-format.jar"
                                [] l = "bzl" -> "buildifier"
                                [] l = "go" -> "gofmt") }
    IN  [l \in { "commitmsg" } \cup found |->
           CASE l = "commitmsg" -> static[l]
             [] l = "java" -> tool("\\.java$", "ext:java")
             [] l = "bzl" -> tool("(\\.bzl|/BUILD|^BUILD)$",
                                  "(ext:bzl OR file:BUILD OR file:WORKSPACE)")
             [] l = "go" -> tool("\\.go$", "ext:go")]

\* Regex.MatchString for the patterns of the table
MatchString(regex, n) ==
    CASE regex = "^/COMMIT_MSG$" -> n = "/COMMIT_MSG"
      [] regex = "\\.java$" -> HasSuffix(n, ".java")
      [] regex = "\\.go$" -> HasSuffix(n, ".go")
      [] regex = "(\\.bzl|/BUILD|^BUILD)$" ->
            HasSuffix(n, ".bzl") \/ HasSuffix(n, "/BUILD") \/ n = "BUILD"

footerPrefix == "commitfooter-"

\* GetFormatter that knows the registered entries alone
GetFormatterRegisteredOnly(lang) ==
    IF lang \in DOMAIN formatters
    THEN [ok |-> TRUE, cfg |-> formatters[lang]]
    ELSE [ok |-> FALSE, cfg |-> [Regex |-> "", Query |-> "",
                                 Formatter |-> [kind |-> "", Footer |-> ""]]]

GetFormatter(lang) ==
    IF HasPrefix(lang, footerPrefix)
    THEN [ok |-> TRUE,
          cfg |-> [Regex |-> "^/COMMIT_MSG$", Query |-> "",
                   Formatter |-> [kind |-> "commitFooterFormatter",
                                  Footer |-> SubSeq(lang, Len(footerPrefix) + 1, Len(lang))]]]
    ELSE IF lang \in DOMAIN formatters
         THEN [ok |-> TRUE, cfg |-> formatters[lang]]
         ELSE [ok |-> FALSE, cfg |-> [Regex |-> "", Query |-> "",
                                      Formatter |-> [kind |-> "", Footer |-> ""]]]

(***************************************************************************)
(* The strategies (server.go).                                             *)
(***************************************************************************)
\* checkCommitMessage with a subject limit that is off by one
checkCommitMessageOffByOne(message) ==
    LET lines == Split(message, "\n")
    IN  IF Len(lines) < 2 THEN "must have multiple lines"
        ELSE IF Len(lines[2]) > 1 THEN "subject and body must be separated by blank line"
        ELSE IF Len(lines[1]) >= 70 THEN "subject must be less than 70 chars"
        ELSE IF HasSuffix(lines[1], ".") THEN "subject must not end in '.'"
        ELSE ""

checkCommitMessage(message) ==
    LET lines == Split(message, "\n")
    IN  IF Len(lines) < 2 THEN "must have multiple lines"
        ELSE IF Len(lines[2]) > 1 THEN "subject and body must be separated by blank line"
        ELSE IF Len(lines[1]) > 70 THEN "subject must be less than 70 chars"
        ELSE IF HasSuffix(lines[1], ".") THEN "subject must not end in '.'"
        ELSE ""

RECURSIVE FooterScan(_, _, _)
\* the loop of checkCommitFooter over the lines of the last paragraph, from line i
FooterScan(lines, footer, i) ==
    IF i > Len(lines) THEN "footer \"" \o footer \o "\" not found"
    ELSE LET colon == Split(lines[i], ":")
             value == SubSeq(lines[i], Len(colon[1]) + 2, Len(lines[i]))
         IN  IF Len(colon) < 2 THEN FooterScan(lines, footer, i + 1)
             ELSE IF colon[1] # footer THEN FooterScan(lines, footer, i + 1)
             ELSE IF ~HasPrefix(value, " ")
                  THEN "footer \"" \o value \o "\" should have space after ':'"
                  ELSE ""

\* checkCommitFooter looking at the paragraph after the subject
checkCommitFooterSecondBlock(message, footer) ==
    IF Len(footer) = 0 THEN "required footer should be non-empty"
    ELSE LET blocks == Split(message, "\n\n")
         IN  IF Len(blocks) < 2 THEN "gerrit changes must have two paragraphs."
             ELSE FooterScan(Split(blocks[2], "\n"), footer, 1)

checkCommitFooter(message, footer) ==
    IF Len(footer) = 0 THEN "required footer should be non-empty"
    ELSE LET blocks == Split(message, "\n\n")
         IN  IF Len(blocks) < 2 THEN "gerrit changes must have two paragraphs."
             ELSE FooterScan(Split(blocks[Len(blocks)], "\n"), footer, 1)

\* the commit strategies with the content handed back beside a complaint
complaintFormatKeepsContent(in, complaint) ==
    [err |-> Nil,
     out |-> << [Name |-> in[1].Name, Content |-> in[1].Content,
                 Message |-> complaint] >>,
     captured |-> "", tmpDir |-> ""]

\* commitMsgFormatter.Format and commitFooterFormatter.Format: in[0] alone is
\* looked at; a complaint replaces the content
complaintFormat(in, complaint) ==
    [err |-> Nil,
     out |-> << [Name |-> in[1].Name,
                 Content |-> IF complaint # "" THEN "" ELSE in[1].Content,
                 Message |-> complaint] >>,
     captured |-> "", tmpDir |-> ""]

\* what the external tool leaves in a file it rewrites
Reformatted(content) == content \o "\n"

\* what the external tool prints to its stdout and stderr in a run: a line per
\* file it rewrites, and a diagnostic when it exits with a failure
ToolPrints(in, tool) ==
    IF tool.exit # 0 THEN "syntax error\n"
    ELSE IF \E i \in 1..Len(in) : in[i].Name \in tool.rewrites
         THEN "reformatted\n" ELSE ""

\* the error a failed step returns
StepError(step) ==
    CASE step = "TempDir" -> "mkdir /tmp/gerritfmt: no space left on device"
      [] step = "MkdirAll" -> "mkdir: no space left on device"
      [] step = "WriteFile" -> "write: no space left on device"
      [] step = "ReadFile" -> "open: no such file or directory"

\* the body of toolFormatter.Format up to its return statement; tool is what
\* the external binary and the file system do in this run: the step that fails
\* (tool.fail, "" when none does) and the file it fails for (tool.at), the exit
\* status of the binary and the set of staged files it rewrites.  tmpDir is "" when no staging directory was created, "created"
\* when one exists; captured is what outBuf and errBuf hold
toolFormatBody(in, tool) ==
    LET failed(step) == tool.fail = step /\ tool.at \in 1..Len(in)
        none == [err |-> Nil, out |-> << >>, captured |-> "", tmpDir |-> "created"]
    IN  IF tool.fail = "TempDir"
        THEN [none EXCEPT !.err = StepError("TempDir"), !.tmpDir = ""]
        ELSE IF failed("MkdirAll") \/ failed("WriteFile")
        THEN [none EXCEPT !.err = StepError(tool.fail)]
        ELSE IF tool.exit # 0
        THEN [none EXCEPT !.err = "exit status " \o Itoa(tool.exit),
                          !.captured = ToolPrints(in, tool)]
        ELSE IF failed("ReadFile")
        THEN [none EXCEPT !.err = StepError("ReadFile"),
                          !.captured = ToolPrints(in, tool)]
        ELSE [none EXCEPT
                !.captured = ToolPrints(in, tool),
                !.out = [i \in 1..Len(in) |->
                           [Name |-> in[i].Name,
                            Content |-> IF in[i].Name \in tool.rewrites
                                        THEN Reformatted(in[i].Content)
                                        ELSE in[i].Content,
                            Message |-> ""]]]

\* os.RemoveAll(tmpDir)
RemoveAll(dir) == IF dir = "created" THEN "removed" ELSE dir

\* toolFormatter.Format with a staging directory that is removed only when the
\* run got to its last return statement
toolFormatRemovesAtEnd(in, tool) ==
    LET r == toolFormatBody(in, tool)
    IN  IF r.err = Nil THEN [r EXCEPT !.tmpDir = RemoveAll(r.tmpDir)] ELSE r

\* toolFormatter.Format: the body, then the deferred os.RemoveAll, which is
\* registered once TempDir has succeeded
toolFormat(in, tool) ==
    LET r == toolFormatBody(in, tool)
    IN  IF tool.fail = "TempDir" THEN r ELSE [r EXCEPT !.tmpDir = RemoveAll(r.tmpDir)]

\* entry.Formatter.Format(fs, &buf): the strategy of the entry; buf is what the
\* strategy wrote to outSink, which no strategy writes to
StrategyFormat(formatter, in, tool) ==
    CASE formatter.kind = "commitMsgFormatter" ->
            complaintFormat(in, checkCommitMessage(in[1].Content))
      [] formatter.kind = "commitFooterFormatter" ->
            complaintFormat(in, checkCommitFooter(in[1].Content, formatter.Footer))
      [] formatter.kind = "toolFormatter" -> toolFormat(in, tool)

\* splitByLang: the files of language l, in request order
FilesOfLang(files, l) == SelectSeq(files, LAMBDA f : f.Language = l)

RECURSIVE FormatLangs(_, _, _, _)
\* the loop of Format over the languages of the request, from languages[i] on;
\* acc holds the reply so far and the strategy calls so far: the files handed
\* in, and the error and the files that came back
FormatLangs(files, languages, tool, acc) ==
    IF Len(languages) = 0 THEN [err |-> Nil, Files |-> acc.Files, calls |-> acc.calls]
    ELSE LET language == Head(languages)
             fs == FilesOfLang(files, language)
             entry == GetFormatter(language)
             res == StrategyFormat(entry.cfg.Formatter, fs, tool)
             buf == ""
             out == IF Len(res.out) > 0 /\ res.out[1].Message = ""
                    THEN [res.out EXCEPT ![1].Message = buf] ELSE res.out
         IN  IF ~entry.ok
             THEN [err |-> "linter: no formatter for \"" \o language \o "\"",
                   Files |-> acc.Files, calls |-> acc.calls]
             ELSE IF res.err # Nil
             THEN [err |-> res.err, Files |-> acc.Files,
                   calls |-> Append(acc.calls,
                                    [in |-> fs, err |-> res.err, out |-> << >>,
                                     captured |-> res.captured, tmpDir |-> res.tmpDir])]
             ELSE FormatLangs(files, Tail(languages), tool,
                              [Files |-> acc.Files \o out,
                               calls |-> Append(acc.calls,
                                                [in |-> fs, err |-> Nil, out |-> out,
                                                 captured |-> res.captured,
                                                 tmpDir |-> res.tmpDir])])

\* Format(req, rep); languages is the order in which the map of splitByLang is
\* ranged over
Format(files, languages, tool) ==
    IF \E i \in 1..Len(files) : files[i].Language = ""
    THEN [err |-> "file has empty language", Files |-> << >>, calls |-> << >>]
    ELSE FormatLangs(files, languages, tool, [Files |-> << >>, calls |-> << >>])

(***************************************************************************)
(* The remote server: the revisions it holds and the calls made to it      *)
(* (gerrit/server.go).  A call either succeeds or fails with an error of   *)
(* the transport.                                                          *)
(***************************************************************************)
Rev(change, ps) == [ChangeNumber |-> change, PatchSetID |-> ps]

Revisions == { Rev(1, 1), Rev(1, 2), Rev(2, 1) }

\* two more revisions the server holds: one whose commit message is empty, and
\* one for which the files endpoint lists no file
EmptyMessageRev == Rev(3, 1)
NoFilesRev == Rev(4, 1)

\* a revision that deletes its one source file
DeletedRev == Rev(5, 1)

ServerRevisions == Revisions \cup { EmptyMessageRev, NoFilesRev, DeletedRev }

LongName(dir) == dir \o "/" \o Repeat("x", LongNameLen) \o ".go"

\* the files of a revision as the server holds them: status and content
FilesOnServer(rev) ==
    CASE rev = Rev(1, 1) ->
            [n \in { "/COMMIT_MSG", "README.md" } |->
               [Status |-> IF n = "/COMMIT_MSG" THEN "A" ELSE "M",
                Content |-> IF n = "/COMMIT_MSG" THEN "abc" ELSE "# linter\n"]]
      [] rev = Rev(1, 2) ->
            [n \in { "/COMMIT_MSG", "main.go" } |->
               [Status |-> "A",
                Content |-> IF n = "/COMMIT_MSG"
                            THEN "New Commit message\n\nChange-Id: I1\n"
                            ELSE "package main\n"]]
      [] rev = Rev(2, 1) ->
            [n \in { "/COMMIT_MSG", LongName("a"), LongName("b") } |->
               [Status |-> IF n = "/COMMIT_MSG" THEN "A" ELSE "M",
                Content |-> IF n = "/COMMIT_MSG"
                            THEN "my linter test change.\n\nChange-Id: I2\n"
                            ELSE "package x\n"]]
      [] rev = EmptyMessageRev ->
            [n \in { "/COMMIT_MSG", "main.go" } |->
               [Status |-> "A",
                Content |-> IF n = "/COMMIT_MSG" THEN "" ELSE "package main\n"]]
      [] rev = NoFilesRev ->
            [n \in {} |-> [Status |-> "", Content |-> ""]]
      [] rev = DeletedRev ->
            [n \in { "/COMMIT_MSG", "old.go" } |->
               [Status |-> IF n = "/COMMIT_MSG" THEN "A" ELSE "D",
                Content |-> IF n = "/COMMIT_MSG"
                            THEN "Delete old.go\n\nChange-Id: I5\n" ELSE ""]]

ServerFilesTable == [rev \in ServerRevisions |-> FilesOnServer(rev)]

ServerFiles(rev) == ServerFilesTable[rev]

\* the checker UUIDs registered under the scheme
UUIDs ==
    { PostCheckerUUID("commitmsg", RepoHash),
      PostCheckerUUID("go", RepoHash),
      PostCheckerUUID("commitfooter-Change-Id", RepoHash) }

\* a PendingChecksInfo: the patch set and the keys of its PendingChecks map
PendingEntries ==
    { [PatchSet |-> r, PendingChecks |-> U] :
        r \in Revisions,
        U \in { V \in SUBSET UUIDs : V # {} /\ Cardinality(V) <= MaxUUIDs } }

\* the lists PendingChecksByScheme can return: checks are owed on one patch
\* set of a change at a time, so a list has at most one entry per change
Snapshots ==
    UNION { { p \in [1..n -> PendingEntries] :
                \A i, j \in 1..n :
                   p[i].PatchSet.ChangeNumber = p[j].PatchSet.ChangeNumber => i = j } :
            n \in 0..MaxPending }

\* the error of putPostPath and Get when the request fails
PostCheckError(changeID, psID) ==
    "POST a/changes/" \o changeID \o "/revisions/" \o Itoa(psID) \o "/checks/: status 500"

GetChangeError(changeID, revID) ==
    "Get changes/" \o changeID \o "/revisions/" \o revID \o "/files/: status 500"

PendingChecksError == "Get a/plugins/checks/checks.pending/?query=scheme:fmt: status 500"

\* GetChange: the files of the revision, the content of a deleted file left nil
GetChange(changeID, revID, ok) ==
    LET rev == CHOOSE r \in ServerRevisions :
                  Itoa(r.ChangeNumber) = changeID /\ Itoa(r.PatchSetID) = revID
    IN  IF ~ok THEN [err |-> GetChangeError(changeID, revID), Files |-> << >>]
        ELSE [err |-> Nil,
              Files |-> [n \in DOMAIN ServerFiles(rev) |->
                           [Status |-> ServerFiles(rev)[n].Status,
                            Content |-> IF ServerFiles(rev)[n].Status = "D" THEN ""
                                        ELSE ServerFiles(rev)[n].Content]]]

(***************************************************************************)
(* checkChange and the verdict of executeCheck (cmd/checker/checker.go).   *)
(***************************************************************************)
errIrrelevant == "irrelevant"

\* the files of ch whose name the filter of the language matches
\* the matching names without the files the revision deletes
MatchingSkipsDeleted(Files, language) ==
    { n \in DOMAIN Files : /\ language \in DOMAIN formatters
                           /\ MatchString(formatters[language].Regex, n)
                           /\ Files[n].Status # "D" }

Matching(Files, language) ==
    { n \in DOMAIN Files : language \in DOMAIN formatters
                           /\ MatchString(formatters[language].Regex, n) }

RECURSIVE CompareSkipsUnknown(_, _, _, _)
\* the loop of checkChange over rep.Files with an unknown file passed over
CompareSkipsUnknown(repFiles, Files, i, acc) ==
    IF i > Len(repFiles) THEN [msgs |-> acc, err |-> Nil]
    ELSE LET f == repFiles[i]
         IN  IF f.Name \notin DOMAIN Files
             THEN CompareSkipsUnknown(repFiles, Files, i + 1, acc)
             ELSE IF f.Content # Files[f.Name].Content
             THEN CompareSkipsUnknown(repFiles, Files, i + 1,
                                      Append(acc, f.Name \o ": " \o
                                             (IF f.Message = "" THEN "found a difference"
                                              ELSE f.Message)))
             ELSE CompareSkipsUnknown(repFiles, Files, i + 1, acc)

RECURSIVE CompareEveryFile(_, _, _, _)
\* the loop of checkChange with a complaint for every file that came back
CompareEveryFile(repFiles, Files, i, acc) ==
    IF i > Len(repFiles) THEN [msgs |-> acc, err |-> Nil]
    ELSE LET f == repFiles[i]
         IN  IF f.Name \notin DOMAIN Files
             THEN [msgs |-> << >>,
                   err |-> "result had unknown file \"" \o f.Name \o "\""]
             ELSE CompareEveryFile(repFiles, Files, i + 1,
                                   Append(acc, f.Name \o ": " \o
                                          (IF f.Message = "" THEN "found a difference"
                                           ELSE f.Message)))

RECURSIVE Compare(_, _, _, _)
\* the loop of checkChange over rep.Files, from file i on
Compare(repFiles, Files, i, acc) ==
    IF i > Len(repFiles) THEN [msgs |-> acc, err |-> Nil]
    ELSE LET f == repFiles[i]
         IN  IF f.Name \notin DOMAIN Files
             THEN [msgs |-> << >>,
                   err |-> "result had unknown file \"" \o f.Name \o "\""]
             ELSE IF f.Content # Files[f.Name].Content
             THEN Compare(repFiles, Files, i + 1,
                          Append(acc, f.Name \o ": " \o
                                 (IF f.Message = "" THEN "found a difference"
                                  ELSE f.Message)))
             ELSE Compare(repFiles, Files, i + 1, acc)

\* checkChange with the request handed to Format even when it is empty
checkChangeNoShortCut(changeID, psID, language, getOK, order, tool) ==
    LET ch == GetChange(changeID, Itoa(psID), getOK)
        reqFiles == [i \in 1..Len(order) |->
                       [Language |-> language, Name |-> order[i],
                        Content |-> ch.Files[order[i]].Content]]
        rep == Format(reqFiles, << language >>, tool)
        cmp == Compare(rep.Files, ch.Files, 1, << >>)
    IN  IF ch.err # Nil THEN [msgs |-> << >>, err |-> ch.err, calls |-> << >>]
        ELSE IF DOMAIN ch.Files # {} /\ language \notin DOMAIN formatters
        THEN [msgs |-> << >>, calls |-> << >>,
              err |-> "language \"" \o language \o "\" not configured"]
        ELSE IF rep.err # Nil THEN [msgs |-> << >>, err |-> rep.err, calls |-> rep.calls]
        ELSE [msgs |-> cmp.msgs, err |-> cmp.err, calls |-> rep.calls]

\* checkChange; getOK is whether GetChange succeeds, order the order in which
\* the range over ch.Files visits the matching files, tool what the external
\* binary does; calls lists the strategy calls made
checkChange(changeID, psID, language, getOK, order, tool) ==
    LET ch == GetChange(changeID, Itoa(psID), getOK)
        reqFiles == [i \in 1..Len(order) |->
                       [Language |-> language, Name |-> order[i],
                        Content |-> ch.Files[order[i]].Content]]
        rep == Format(reqFiles, << language >>, tool)
        cmp == Compare(rep.Files, ch.Files, 1, << >>)
    IN  IF ch.err # Nil THEN [msgs |-> << >>, err |-> ch.err, calls |-> << >>]
        ELSE IF DOMAIN ch.Files # {} /\ language \notin DOMAIN formatters
        THEN [msgs |-> << >>, calls |-> << >>,
              err |-> "language \"" \o language \o "\" not configured"]
        ELSE IF Len(reqFiles) = 0
        THEN [msgs |-> << >>, err |-> errIrrelevant, calls |-> << >>]
        ELSE IF rep.err # Nil THEN [msgs |-> << >>, err |-> rep.err, calls |-> rep.calls]
        ELSE [msgs |-> cmp.msgs, err |-> cmp.err, calls |-> rep.calls]

\* checkChange when the Formatter of the language is any implementation of the
\* interface and returns out without an error: Format passes out on, with the
\* empty text of buf as the message of its first file when that has none
checkChangeFormatter(changeID, psID, language, getOK, order, out) ==
    LET ch == GetChange(changeID, Itoa(psID), getOK)
        reqFiles == [i \in 1..Len(order) |->
                       [Language |-> language, Name |-> order[i],
                        Content |-> ch.Files[order[i]].Content]]
        cmp == Compare(out, ch.Files, 1, << >>)
    IN  IF ch.err # Nil THEN [msgs |-> << >>, err |-> ch.err, calls |-> << >>]
        ELSE IF DOMAIN ch.Files # {} /\ language \notin DOMAIN formatters
        THEN [msgs |-> << >>, calls |-> << >>,
              err |-> "language \"" \o language \o "\" not configured"]
        ELSE IF Len(reqFiles) = 0
        THEN [msgs |-> << >>, err |-> errIrrelevant, calls |-> << >>]
        ELSE [msgs |-> cmp.msgs, err |-> cmp.err,
              calls |-> << [in |-> reqFiles, err |-> Nil, out |-> out,
                            captured |-> "", tmpDir |-> ""] >>]

\* the orders in which checkChange can meet the matching files of a revision
FileOrders(rev, language) == Orders(Matching(ServerFiles(rev), language))

\* what the external binary can do with the files handed to it; a strategy
\* that runs no binary has the one outcome
ToolOutcomes(rev, language) ==
    IF language \in DOMAIN formatters
       /\ formatters[language].Formatter.kind = "toolFormatter"
       /\ Matching(ServerFiles(rev), language) # {}
    THEN { [fail |-> "", at |-> 0, exit |-> 1, rewrites |-> {}] }
         \cup { [fail |-> "", at |-> 0, exit |-> 0, rewrites |-> W] :
                  W \in SUBSET Matching(ServerFiles(rev), language) }
    ELSE { [fail |-> "", at |-> 0, exit |-> 0, rewrites |-> {}] }

\* the longest message executeCheck posts, and what is kept of a longer one
MaxMessage == 1000
KeptMessage == 995

\* the verdict with a message that is never cut
VerdictUncut(checkerUUID, res) ==
    IF ~checkerLanguage(checkerUUID).ok
    THEN [status |-> statusFail, msgs |-> << >>,
          msg |-> "uuid \"" \o checkerUUID \o "\" has unknown language"]
    ELSE LET st == IF res.err = errIrrelevant THEN statusIrrelevant
                       ELSE IF res.err # Nil THEN statusFail
                       ELSE IF Len(res.msgs) = 0 THEN statusSuccessful
                       ELSE statusFail
             ms == IF res.err # Nil /\ res.err # errIrrelevant
                     THEN << "tool failure: " \o res.err >> ELSE res.msgs
         IN  [status |-> st, msgs |-> ms, msg |-> Join(ms, ", ")]

\* the verdict that reports complaints as SUCCESSFUL
VerdictSwapped(checkerUUID, res) ==
    LET v == VerdictUncut(checkerUUID, res)
        joined == IF Len(v.msg) > MaxMessage
               THEN SubSeq(v.msg, 1, KeptMessage) \o "..." ELSE v.msg
    IN  [status |-> IF res.err = Nil /\ Len(res.msgs) > 0 THEN statusSuccessful
                    ELSE v.status,
         msgs |-> v.msgs, msg |-> joined]

\* the verdict with status left at its zero value when nothing applies
VerdictZeroStatus(checkerUUID, res) ==
    LET v == VerdictUncut(checkerUUID, res)
    IN  [status |-> IF res.err = errIrrelevant /\ checkerLanguage(checkerUUID).ok
                    THEN statusUnset ELSE v.status,
         msgs |-> v.msgs, msg |-> v.msg]

\* the verdict that takes a uuid without a language as not applying
VerdictUnknownIrrelevant(checkerUUID, res) ==
    LET v == VerdictSwapped(checkerUUID, [res EXCEPT !.msgs = << >>])
        w == VerdictUncut(checkerUUID, res)
    IN  IF ~checkerLanguage(checkerUUID).ok
        THEN [status |-> statusIrrelevant, msgs |-> << >>, msg |-> ""]
        ELSE [status |-> w.status, msgs |-> w.msgs, msg |-> v.msg]

\* lines 277-300 of executeCheck: status and message from the result of
\* checkChange (res is not looked at when the uuid has no language)
Verdict(checkerUUID, res) ==
    IF ~checkerLanguage(checkerUUID).ok
    THEN [status |-> statusFail, msgs |-> << >>,
          msg |-> "uuid \"" \o checkerUUID \o "\" has unknown language"]
    ELSE LET st == IF res.err = errIrrelevant THEN statusIrrelevant
                       ELSE IF res.err # Nil THEN statusFail
                       ELSE IF Len(res.msgs) = 0 THEN statusSuccessful
                       ELSE statusFail
             ms == IF res.err # Nil /\ res.err # errIrrelevant
                     THEN << "tool failure: " \o res.err >> ELSE res.msgs
             joined == Join(ms, ", ")
         IN  [status |-> st, msgs |-> ms,
              msg |-> IF Len(joined) > MaxMessage
                      THEN SubSeq(joined, 1, KeptMessage) \o "..." ELSE joined]

(***************************************************************************)
(* The state: the position of Serve, the locals of processPendingChecks    *)
(* and executeCheck, and the record of the calls made.                     *)
(***************************************************************************)
VARIABLES
    pc,            \* where Serve is: poll, loop, range, check, post, returned, sleeping
    queryErr,      \* the error PendingChecksByScheme returned in this round
    snapshot,      \* the list PendingChecksByScheme returned in this round
    pending,       \* processPendingChecks: the list after the shuffle
    idx,           \* processPendingChecks: position of the range over pending
    wait,          \* processPendingChecks: the result wait
    err,           \* processPendingChecks: the result err
    aggregateErr,  \* processPendingChecks: the first error registered
    remaining,     \* executeCheck: keys of pc.PendingChecks not yet ranged over
    uuid,          \* executeCheck: the key of this iteration
    status,        \* executeCheck: the local status
    cerr,          \* executeCheck: the error checkChange returned
    msgs,          \* executeCheck: the local msgs
    msg,           \* executeCheck: the local msg
    posts,         \* the PostCheck calls of this executeCheck, in order
    fetches,       \* the GetChange calls of this executeCheck, in order
    calls,         \* the strategy calls of this executeCheck, in order
    executed,      \* the executeCheck calls of this round and what they returned
    slept,         \* the duration of the last time.Sleep of Serve, in seconds
    delay,         \* the delay NewGerritChecker was given, in milliseconds
    linterCall     \* the last call of Format or GetFormatter from outside the checker

vars == << pc, queryErr, snapshot, pending, idx, wait, err, aggregateErr, remaining,
           uuid, status, cerr, msgs, msg, posts, fetches, calls, executed, slept,
           delay, linterCall >>

\* the delay the callers of NewGerritChecker pass, in milliseconds
TestDelay == 75

\* no call of the package from outside the checker yet
NoCall == [fn |-> ""]

execVars == << remaining, uuid, status, cerr, msgs, msg, posts, fetches, calls >>

\* the seconds Serve sleeps when told to wait: time.Sleep(10 * time.Second)
SleepSeconds == 10

Init ==
    /\ pc = "poll"
    /\ queryErr = Nil
    /\ snapshot = << >>
    /\ pending = << >>
    /\ idx = 1
    /\ wait = FALSE
    /\ err = Nil
    /\ aggregateErr = Nil
    /\ remaining = {}
    /\ uuid = ""
    /\ status = statusUnset
    /\ cerr = Nil
    /\ msgs = << >>
    /\ msg = ""
    /\ posts = << >>
    /\ fetches = << >>
    /\ calls = << >>
    /\ executed = << >>
    /\ slept = 0
    /\ delay = TestDelay
    /\ linterCall = NoCall

\* the choices of rand.Shuffle for n elements: for i from n down to 2, the
\* position j <= i that position i is swapped with
ShuffleChoices(n) == { js \in [2..n -> 1..n] : \A i \in 2..n : js[i] <= i }

Swap(p, i, j) == [p EXCEPT ![i] = p[j], ![j] = p[i]]

RECURSIVE ShuffleFrom(_, _, _)
ShuffleFrom(p, js, i) ==
    IF i < 2 THEN p ELSE ShuffleFrom(Swap(p, i, js[i]), js, i - 1)

\* a shuffle that overwrites instead of swapping
ShuffleOverwrite(p, js) ==
    IF Len(p) < 2 THEN p ELSE [p EXCEPT ![Len(p)] = p[js[Len(p)]]]

\* rand.Shuffle(len(pending), swap)
Shuffle(p, js) == ShuffleFrom(p, js, Len(p))

\* lines 207-224 with wait left false when nothing is pending
PollResultNoWait(ok, snap, js) ==
    IF ~ok THEN [done |-> TRUE, wait |-> TRUE, err |-> PendingChecksError, pending |-> << >>]
    ELSE IF Len(snap) = 0
    THEN [done |-> TRUE, wait |-> FALSE, err |-> Nil, pending |-> snap]
    ELSE [done |-> FALSE, wait |-> FALSE, err |-> Nil, pending |-> Shuffle(snap, js)]

\* lines 207-224 of processPendingChecks: the query, the early returns and the
\* shuffle; done says that the function returned
PollResult(ok, snap, js) ==
    IF ~ok THEN [done |-> TRUE, wait |-> TRUE, err |-> PendingChecksError, pending |-> << >>]
    ELSE IF Len(snap) = 0
    THEN [done |-> TRUE, wait |-> TRUE, err |-> Nil, pending |-> snap]
    ELSE [done |-> FALSE, wait |-> FALSE, err |-> Nil, pending |-> Shuffle(snap, js)]

\* Serve calls processPendingChecks, which queries the server
Poll ==
    /\ pc = "poll"
    /\ UNCHANGED << delay, linterCall >>
    /\ \E ok \in BOOLEAN, snap \in Snapshots :
         \E js \in ShuffleChoices(Len(snap)) :
            \E r \in { PollResult(ok, snap, js) } :
                /\ queryErr' = IF ok THEN Nil ELSE PendingChecksError
                /\ snapshot' = IF ok THEN snap ELSE << >>
                /\ pending' = r.pending
                /\ wait' = r.wait
                /\ err' = r.err
                /\ pc' = IF r.done THEN "returned" ELSE "loop"
    /\ UNCHANGED << idx, aggregateErr, executed, slept >>
    /\ UNCHANGED execVars

\* the body of the range over pending with a later error replacing the first
AfterExecuteLast(w, agg, e) ==
    [aggregateErr |-> IF e # Nil THEN e ELSE agg, wait |-> w]

\* the body of the range over pending with every error asking for a wait
AfterExecuteErrWaits(w, agg, e) ==
    [aggregateErr |-> IF e # Nil /\ agg = Nil THEN e ELSE agg,
     wait |-> IF e # Nil THEN TRUE ELSE w]

\* lines 228-234: the body of the range over pending, e being what executeCheck
\* returned
AfterExecute(w, agg, e) ==
    IF e # Nil /\ agg = Nil
    THEN [aggregateErr |-> e, wait |-> w]
    ELSE IF e = Nil
    THEN [aggregateErr |-> agg, wait |-> FALSE]
    ELSE [aggregateErr |-> agg, wait |-> w]

\* executeCheck returns e to the range over pending, which moves on
\* the return of executeCheck into a loop that steps over the entry after it
ReturnFromExecuteSkips(e) ==
    /\ executed' = Append(executed, [entry |-> pending[idx], err |-> e])
    /\ \E r \in { AfterExecute(wait, aggregateErr, e) } :
          /\ aggregateErr' = r.aggregateErr
          /\ wait' = r.wait
    /\ idx' = idx + 2
    /\ pc' = "loop"

ReturnFromExecute(e) ==
    /\ executed' = Append(executed, [entry |-> pending[idx], err |-> e])
    /\ \E r \in { AfterExecute(wait, aggregateErr, e) } :
          /\ aggregateErr' = r.aggregateErr
          /\ wait' = r.wait
    /\ idx' = idx + 1
    /\ pc' = "loop"

\* the range over pending calls executeCheck for the next entry
BeginExecute ==
    /\ pc = "loop"
    /\ UNCHANGED << delay, linterCall >>
    /\ idx <= Len(pending)
    /\ remaining' = pending[idx].PendingChecks
    /\ uuid' = ""
    /\ status' = statusUnset
    /\ cerr' = Nil
    /\ msgs' = << >>
    /\ msg' = ""
    /\ posts' = << >>
    /\ fetches' = << >>
    /\ calls' = << >>
    /\ pc' = "range"
    /\ UNCHANGED << queryErr, snapshot, pending, idx, wait, err, aggregateErr, executed, slept >>

changeID == Itoa(pending[idx].PatchSet.ChangeNumber)
psID == pending[idx].PatchSet.PatchSetID

\* a PostCheck call as the server sees it, and whether it was acknowledged
Post(u, state, message, ok) ==
    [changeID |-> changeID, psID |-> psID, CheckerUUID |-> u,
     State |-> state, Message |-> message, ok |-> ok]

\* PostRunning with the error of the post dropped
PostRunningIgnoreErr ==
    /\ pc = "range"
    /\ UNCHANGED << delay, linterCall >>
    /\ \E u \in remaining, ok \in BOOLEAN :
         /\ posts' = Append(posts, Post(u, StatusString(statusRunning), "", ok))
         /\ uuid' = u
    /\ pc' = "check"
    /\ UNCHANGED << queryErr, snapshot, pending, idx, wait, err, aggregateErr, remaining,
                    status, cerr, msgs, msg, fetches, calls, executed, slept >>

\* lines 264-275: the range over pc.PendingChecks yields a key and RUNNING is
\* posted for it
PostRunning ==
    /\ pc = "range"
    /\ UNCHANGED << delay, linterCall >>
    /\ \E u \in remaining, ok \in BOOLEAN :
         /\ posts' = Append(posts, Post(u, StatusString(statusRunning), "", ok))
         /\ uuid' = u
         /\ status' = statusUnset
         /\ cerr' = Nil
         /\ msgs' = << >>
         /\ msg' = ""
         /\ IF ok
            THEN /\ pc' = "check"
                 /\ UNCHANGED << idx, wait, aggregateErr, executed >>
            ELSE ReturnFromExecute(PostCheckError(changeID, psID))
    /\ UNCHANGED << queryErr, snapshot, pending, err, remaining, fetches, calls, slept >>

\* lines 277-300: the language of the uuid, checkChange and the verdict
Check ==
    /\ pc = "check"
    /\ UNCHANGED << delay, linterCall >>
    /\ LET l == checkerLanguage(uuid)
       IN  IF ~l.ok
           THEN LET v == Verdict(uuid, [msgs |-> << >>, err |-> Nil])
                IN  /\ status' = v.status
                    /\ msgs' = v.msgs
                    /\ msg' = v.msg
                    /\ UNCHANGED << cerr, fetches, calls >>
           ELSE \E getOK \in BOOLEAN,
                   order \in FileOrders(pending[idx].PatchSet, l.lang),
                   tool \in ToolOutcomes(pending[idx].PatchSet, l.lang) :
                   \E res \in { checkChange(changeID, psID, l.lang, getOK, order, tool) } :
                   \E v \in { Verdict(uuid, res) } :
                       /\ status' = v.status
                       /\ cerr' = res.err
                       /\ msgs' = v.msgs
                       /\ msg' = v.msg
                       /\ fetches' = Append(fetches,
                                            [changeID |-> changeID, revID |-> Itoa(psID),
                                             uuid |-> uuid, language |-> l.lang,
                                             ok |-> getOK])
                       /\ calls' = calls \o [i \in 1..Len(res.calls) |->
                                               [uuid |-> uuid, in |-> res.calls[i].in,
                                                err |-> res.calls[i].err,
                                                out |-> res.calls[i].out,
                                                captured |-> res.calls[i].captured]]
    /\ pc' = "post"
    /\ UNCHANGED << queryErr, snapshot, pending, idx, wait, err, aggregateErr, remaining,
                    uuid, posts, executed, slept >>

\* PostTerminal with the error of checkChange returned after the post
PostTerminalReturnsErr ==
    /\ pc = "post"
    /\ UNCHANGED << delay, linterCall >>
    /\ \E ok \in BOOLEAN :
         /\ posts' = Append(posts, Post(uuid, StatusString(status), msg, ok))
         /\ IF ~ok
            THEN /\ ReturnFromExecute(PostCheckError(changeID, psID))
                 /\ UNCHANGED remaining
            ELSE /\ remaining' = remaining \ { uuid }
                 /\ IF cerr \notin { Nil, errIrrelevant }
                    THEN ReturnFromExecute(cerr)
                    ELSE IF remaining \ { uuid } = {}
                    THEN ReturnFromExecute(Nil)
                    ELSE /\ pc' = "range"
                         /\ UNCHANGED << idx, wait, aggregateErr, executed >>
    /\ UNCHANGED << queryErr, snapshot, pending, err, uuid, status, cerr, msgs, msg,
                    fetches, calls, slept >>

\* lines 302-313: the terminal state is posted; the range goes on, or
\* executeCheck returns
\* the terminal post with a failure that does not end the range over the
\* checker UUIDs of the entry
PostTerminalGoesOn ==
    /\ pc = "post"
    /\ UNCHANGED << delay, linterCall >>
    /\ \E ok \in BOOLEAN :
         /\ posts' = Append(posts, Post(uuid, StatusString(status), msg, ok))
         /\ remaining' = remaining \ { uuid }
         /\ IF remaining \ { uuid } = {}
            THEN ReturnFromExecute(IF ok THEN Nil ELSE PostCheckError(changeID, psID))
            ELSE /\ pc' = "range"
                 /\ UNCHANGED << idx, wait, aggregateErr, executed >>
    /\ UNCHANGED << queryErr, snapshot, pending, err, uuid, status, cerr, msgs, msg,
                    fetches, calls, slept >>

PostTerminal ==
    /\ pc = "post"
    /\ UNCHANGED << delay, linterCall >>
    /\ \E ok \in BOOLEAN :
         /\ posts' = Append(posts, Post(uuid, StatusString(status), msg, ok))
         /\ IF ~ok
            THEN /\ ReturnFromExecute(PostCheckError(changeID, psID))
                 /\ UNCHANGED remaining
            ELSE /\ remaining' = remaining \ { uuid }
                 /\ IF remaining \ { uuid } = {}
                    THEN ReturnFromExecute(Nil)
                    ELSE /\ pc' = "range"
                         /\ UNCHANGED << idx, wait, aggregateErr, executed >>
    /\ UNCHANGED << queryErr, snapshot, pending, err, uuid, status, cerr, msgs, msg,
                    fetches, calls, slept >>

\* the locals of executeCheck and the record of its calls, once it is over
ExecuteOver ==
    /\ remaining' = {}
    /\ uuid' = ""
    /\ status' = statusUnset
    /\ cerr' = Nil
    /\ msgs' = << >>
    /\ msg' = ""
    /\ posts' = << >>
    /\ fetches' = << >>
    /\ calls' = << >>

\* the locals of processPendingChecks, once Serve has looked at its results
RoundOver ==
    /\ queryErr' = Nil
    /\ snapshot' = << >>
    /\ pending' = << >>
    /\ idx' = 1
    /\ aggregateErr' = Nil
    /\ executed' = << >>

\* line 236: the range over pending is over
ReturnRound ==
    /\ pc = "loop"
    /\ UNCHANGED << delay, linterCall >>
    /\ idx > Len(pending)
    /\ err' = aggregateErr
    /\ pc' = "returned"
    /\ UNCHANGED << queryErr, snapshot, pending, idx, wait, aggregateErr, executed, slept >>
    /\ UNCHANGED execVars

\* lines 196-201 of Serve with wait set: the error is logged and Serve sleeps
ServeSleep ==
    /\ pc = "returned"
    /\ UNCHANGED << delay, linterCall >>
    /\ wait
    /\ slept' = SleepSeconds
    /\ pc' = "sleeping"
    /\ RoundOver
    /\ ExecuteOver
    /\ UNCHANGED << wait, err >>

\* lines 196-201 of Serve with wait not set: the next round starts at once
ServeRepeat ==
    /\ pc = "returned"
    /\ UNCHANGED << delay, linterCall >>
    /\ ~wait
    /\ slept' = 0
    /\ pc' = "poll"
    /\ RoundOver
    /\ ExecuteOver
    /\ UNCHANGED << wait, err >>

\* a time.Sleep that does not return
WakeNever ==
    /\ pc = "sleeping"
    /\ UNCHANGED vars

\* time.Sleep returns
Wake ==
    /\ pc = "sleeping"
    /\ UNCHANGED << delay, linterCall >>
    /\ pc' = "poll"
    /\ UNCHANGED << queryErr, snapshot, pending, idx, wait, err, aggregateErr, executed,
                    slept >>
    /\ UNCHANGED execVars

Next ==
    \/ Poll
    \/ BeginExecute
    \/ PostRunning
    \/ Check
    \/ PostTerminal
    \/ ReturnRound
    \/ ServeSleep
    \/ ServeRepeat
    \/ Wake

Spec == Init /\ [][Next]_vars

\* the longest list of pending checks in the rounds of FairSpec
MaxFairPending == 1

\* a query for pending checks that is answered with a short list
PollShort ==
    /\ Poll
    /\ Len(snapshot') <= MaxFairPending

NextFair ==
    \/ PollShort
    \/ BeginExecute
    \/ PostRunning
    \/ Check
    \/ PostTerminal
    \/ ReturnRound
    \/ ServeSleep
    \/ ServeRepeat
    \/ Wake

\* Serve runs in a goroutine of its own that nothing stops: a remote call
\* comes back, time.Sleep returns, and the step after it is taken
FairSpec == Init /\ [][NextFair]_vars /\ WF_vars(NextFair)

(***************************************************************************)
(* A second specification: Serve on a server that holds more revisions     *)
(* and more checkers of the scheme.  The first poll has returned one entry *)
(* with one checker UUID; the rounds after it are those of Spec.           *)
(***************************************************************************)
\* most "-"-separated fields of a generated checker UUID
MaxFields == 3

\* the texts a field of a generated UUID can have
FieldTexts == { "", "go", "java" }

\* what a generated UUID starts with: nothing, the scheme, the scheme twice
SchemePrefixes == { "", checkerScheme \o ":", checkerScheme \o ":" \o checkerScheme \o ":" }

\* the languages PostChecker is called with
PostedLanguages == { "commitmsg", "go", "java", "commitfooter-Change-Id", "commitfooter-Bug" }

\* the uuid TestSchemeLanguage decodes
TestUUID == "fmt:commitfooter-Change-Id.1234"

\* the checker UUIDs a pending entry can carry
\* the length of the name of a checker registered under the scheme with a
\* long name that has no "-"
LongUUIDLen == 1000

LongUUID == checkerScheme \o ":" \o Repeat("x", LongUUIDLen)

AnyUUIDs ==
    { pre \o Join(fs, "-") :
        pre \in SchemePrefixes,
        fs \in UNION { [1..n -> FieldTexts] : n \in 1..MaxFields } }
      \cup { PostCheckerUUID(l, RepoHash) : l \in PostedLanguages }
      \cup { TestUUID, LongUUID }

AnyEntries ==
    { [PatchSet |-> r, PendingChecks |-> { u }] : r \in ServerRevisions, u \in AnyUUIDs }

\* processPendingChecks after lines 207-224 for the list of the one entry e
AfterFirstPoll(e) ==
    /\ pc = "loop"
    /\ queryErr = Nil
    /\ snapshot = << e >>
    /\ pending = << e >>
    /\ idx = 1
    /\ wait = FALSE
    /\ err = Nil
    /\ aggregateErr = Nil
    /\ remaining = {}
    /\ uuid = ""
    /\ status = statusUnset
    /\ cerr = Nil
    /\ msgs = << >>
    /\ msg = ""
    /\ posts = << >>
    /\ fetches = << >>
    /\ calls = << >>
    /\ executed = << >>
    /\ slept = 0
    /\ delay = TestDelay
    /\ linterCall = NoCall

InitAnyEntry == \E e \in AnyEntries : AfterFirstPoll(e)

SpecAnyEntry == InitAnyEntry /\ [][Next]_vars

(***************************************************************************)
(* A third specification: one round of one entry when the Formatter of a   *)
(* language is any implementation of the interface (server.go, lines 32    *)
(* to 36), which returns formatted files of its own choice.                *)
(***************************************************************************)
\* most formatted files in the reply of a Formatter
MaxReply == 2

\* a file name that no revision has
UnknownFile == "unknown.go"

\* the formatted files a Formatter can return for the files of a revision
FormattedFiles(rev, language) ==
    UNION { { [Name |-> n, Content |-> c, Message |-> ""] :
                c \in { ServerFiles(rev)[n].Content,
                        Reformatted(ServerFiles(rev)[n].Content) } } :
            n \in Matching(ServerFiles(rev), language) }
    \cup { [Name |-> UnknownFile, Content |-> "package main\n", Message |-> ""] }

\* the replies of a Formatter; it is not called when no file matches
AnyReplies(rev, language) ==
    IF Matching(ServerFiles(rev), language) = {} THEN { << >> }
    ELSE UNION { [1..k -> FormattedFiles(rev, language)] : k \in 1..MaxReply }

InitOneEntry == \E e \in PendingEntries : AfterFirstPoll(e)

\* lines 277-300 with the Formatter of the language returning out
CheckAnyFormatter ==
    /\ pc = "check"
    /\ UNCHANGED << delay, linterCall >>
    /\ LET l == checkerLanguage(uuid)
       IN  IF ~l.ok
           THEN LET v == Verdict(uuid, [msgs |-> << >>, err |-> Nil])
                IN  /\ status' = v.status
                    /\ msgs' = v.msgs
                    /\ msg' = v.msg
                    /\ UNCHANGED << cerr, fetches, calls >>
           ELSE \E getOK \in BOOLEAN,
                   order \in FileOrders(pending[idx].PatchSet, l.lang),
                   out \in AnyReplies(pending[idx].PatchSet, l.lang) :
                   \E res \in { checkChangeFormatter(changeID, psID, l.lang, getOK,
                                                     order, out) } :
                   \E v \in { Verdict(uuid, res) } :
                       /\ status' = v.status
                       /\ cerr' = res.err
                       /\ msgs' = v.msgs
                       /\ msg' = v.msg
                       /\ fetches' = Append(fetches,
                                            [changeID |-> changeID, revID |-> Itoa(psID),
                                             uuid |-> uuid, language |-> l.lang,
                                             ok |-> getOK])
                       /\ calls' = calls \o [i \in 1..Len(res.calls) |->
                                               [uuid |-> uuid, in |-> res.calls[i].in,
                                                err |-> res.calls[i].err,
                                                out |-> res.calls[i].out,
                                                captured |-> res.calls[i].captured]]
    /\ pc' = "post"
    /\ UNCHANGED << queryErr, snapshot, pending, idx, wait, err, aggregateErr, remaining,
                    uuid, posts, executed, slept >>

\* the round of the entry; wait is not set in it, so that Serve does not sleep
NextAnyFormatter ==
    \/ BeginExecute
    \/ PostRunning
    \/ CheckAnyFormatter
    \/ PostTerminal
    \/ ReturnRound
    \/ ServeRepeat

SpecAnyFormatter == InitOneEntry /\ [][NextAnyFormatter]_vars

(***************************************************************************)
(* A fourth specification: the package called from outside the checker, as *)
(* its tests and its RPC front end call it.  Format is called with a        *)
(* request drawn from commit messages around every rule of the two commit   *)
(* strategies and from source files handed to the external tool, whose run  *)
(* can fail at each of its steps; GetFormatter is called with identifiers   *)
(* inside and outside the table.                                            *)
(***************************************************************************)
\* the longest subject line of a commit message drawn
MaxSubject == 71

\* the most files of one request
MaxRequest == 2

Subjects ==
    { "", "abc", "abc.", "myfooter: v" }
      \cup { Repeat("x", n) : n \in 69..MaxSubject }
      \cup { Repeat("x", n - 1) \o "." : n \in 69..MaxSubject }

\* what follows the subject line
Rests ==
    { "", "\n", "\n\ndef", "\ndef\n", "\nd\nef", "\n\n", "\n\ndef\n",
      "\n\nChange-Id: Iabc123\nmyfooter: value!",
      "\n\nmyfooter:abc", "\n\nmyfooter:",
      "\n\nmyfooter:abc\nmyfooter: ok", "\n\nmyfooter: ok\nmyfooter:abc",
      "\n\nfoo\n\nmyfooter: v\n", "\n\nmyfooter: v\n\nfoo", "\n\nmyfooter: v\n\n",
      "\n\n\nmyfooter: a: b", "\n\nmyfooter", "\n\nmyfooter : v",
      "\n\n myfooter: v", "\n\nMyfooter: v", "\nmyfooter: v" }

CommitMessages == { s \o r : s \in Subjects, r \in Rests }

\* the languages a file of a request can name
RequestLanguages ==
    { "commitmsg", "commitfooter-myfooter", "commitfooter-", "go", "java", "" }

\* the identifiers GetFormatter is called with
Identifiers ==
    RequestLanguages
      \cup { "bzl", "commitfooter", "commitfooter-a-b", "commitfooter-commitfooter-x",
             "Commitfooter-x", "xcommitfooter-y", "commitmsg-" }

SourceFiles == { "main.go", "a/b.go" }

\* the files a request can hold for a language: the commit message for the
\* strategies that look at it, source files for the others
RequestFiles(l) ==
    IF l \in { "commitmsg", "" } \/ HasPrefix(l, footerPrefix)
    THEN { [Language |-> l, Name |-> "/COMMIT_MSG", Content |-> m] : m \in CommitMessages }
    ELSE { [Language |-> l, Name |-> n, Content |-> "package main\n"] : n \in SourceFiles }

\* the requests: one file of any language, or more files of which the
\* first is a source file
Requests ==
    { << f >> : f \in UNION { RequestFiles(l) : l \in RequestLanguages } }
      \cup UNION { { q \in [1..n -> RequestFiles("go") \cup RequestFiles("java")
                                      \cup { [Language |-> "commitmsg",
                                              Name |-> "/COMMIT_MSG",
                                              Content |-> c] : c \in { "abc", "abc\n" } }] :
                      /\ q[1].Language = "go"
                      /\ \A i, j \in 1..n : q[i].Name = q[j].Name => i = j } :
                  n \in 2..MaxRequest }

\* the languages of a request
LanguagesOf(files) == { files[i].Language : i \in 1..Len(files) }

\* what the external binary and the file system can do in a run over the
\* files of a request
AnyToolRuns(files) ==
    LET names == { files[i].Name : i \in 1..Len(files) } \cap SourceFiles
        n == Len(FilesOfLang(files, "go"))
    IN  IF n = 0
        THEN { [fail |-> "", at |-> 0, exit |-> 0, rewrites |-> {}] }
        ELSE { [fail |-> "", at |-> 0, exit |-> 1, rewrites |-> {}],
               [fail |-> "TempDir", at |-> 0, exit |-> 0, rewrites |-> {}] }
               \cup { [fail |-> "", at |-> 0, exit |-> 0, rewrites |-> W] :
                        W \in SUBSET names }
               \cup { [fail |-> step, at |-> i, exit |-> 0, rewrites |-> names] :
                        step \in { "MkdirAll", "WriteFile", "ReadFile" }, i \in 1..n }

\* a call of Format from outside the checker
CallFormat ==
    \E files \in Requests :
    \E languages \in Orders(LanguagesOf(files)) :
    \E tool \in AnyToolRuns(files) :
    \E rep \in { Format(files, languages, tool) } :
        /\ linterCall' = [fn |-> "Format", req |-> files,
                          err |-> rep.err, Files |-> rep.Files, calls |-> rep.calls]
        /\ UNCHANGED << pc, queryErr, snapshot, pending, idx, wait, err, aggregateErr,
                        remaining, uuid, status, cerr, msgs, msg, posts, fetches,
                        calls, executed, slept, delay >>

\* a call of GetFormatter from outside the checker
CallGetFormatter ==
    \E lang \in Identifiers :
    \E r \in { GetFormatter(lang) } :
        /\ linterCall' = [fn |-> "GetFormatter", lang |-> lang, ok |-> r.ok, cfg |-> r.cfg]
        /\ UNCHANGED << pc, queryErr, snapshot, pending, idx, wait, err, aggregateErr,
                        remaining, uuid, status, cerr, msgs, msg, posts, fetches,
                        calls, executed, slept, delay >>

NextFormat ==
    \/ CallFormat
    \/ CallGetFormatter

SpecFormat == Init /\ [][NextFormat]_vars

TypeOK ==
    /\ pc \in { "poll", "loop", "range", "check", "post", "returned", "sleeping" }
    /\ wait \in BOOLEAN
    /\ status \in 0..4
    /\ idx \in 1..(Len(pending) + 1)

(***************************************************************************)
(* The properties.                                                         *)
(***************************************************************************)
\* the entry of the executeCheck call that posts records
CurrentEntry ==
    IF pc \in { "range", "check", "post" } THEN pending[idx]
    ELSE executed[Len(executed)].entry

Terminal == { "SUCCESSFUL", "FAILED", "IRRELEVANT" }

\* C1: every post of an executeCheck call goes to the patch set and to a uuid
\* of its entry; a state posted is RUNNING or one of SUCCESSFUL, FAILED and
\* IRRELEVANT, never UNSET; a terminal state comes after an acknowledged
\* RUNNING post for the same uuid, and is the only terminal state for it.
C1_TerminalFollowsRunning ==
    \A i \in 1..Len(posts) :
       LET p == posts[i]
       IN  /\ p.CheckerUUID \in CurrentEntry.PendingChecks
           /\ p.changeID = Itoa(CurrentEntry.PatchSet.ChangeNumber)
           /\ p.psID = CurrentEntry.PatchSet.PatchSetID
           /\ p.State \in Terminal \cup { "RUNNING" }
           /\ p.State \in Terminal =>
                /\ \E j \in 1..(i - 1) :
                      /\ posts[j].State = "RUNNING"
                      /\ posts[j].ok
                      /\ posts[j].CheckerUUID = p.CheckerUUID
                      /\ posts[j].changeID = p.changeID
                      /\ posts[j].psID = p.psID
                /\ \A k \in 1..Len(posts) :
                      (k # i /\ posts[k].CheckerUUID = p.CheckerUUID)
                         => posts[k].State = "RUNNING"

\* one call that posted FAILED for one uuid and then IRRELEVANT for another
C1_Witness ==
    /\ Len(posts) = 4
    /\ posts[2].State = "FAILED"
    /\ posts[3].State = "RUNNING"
    /\ posts[4].State = "IRRELEVANT"

AllErrored == \A i \in 1..Len(executed) : executed[i].err # Nil

SomeCompleted == \E i \in 1..Len(executed) : executed[i].err = Nil

\* C2: when processPendingChecks returns from a round with a non-empty list
\* in which every executeCheck returned an error, wait is true.
C2_AllErroredMeansWait ==
    (pc = "returned" /\ Len(executed) > 0 /\ AllErrored) => wait

\* C3: when processPendingChecks returns from a round in which an executeCheck
\* call returned no error, wait is false and the next step of Serve is the
\* next poll, without a sleep.
C3_ProgressRepeatsAtOnce ==
    [][(pc = "returned" /\ SomeCompleted) => (~wait /\ pc' = "poll" /\ slept' = 0)]_vars

\* a round that returned with one entry completed and another one failed
C3_Witness ==
    /\ pc = "returned"
    /\ SomeCompleted
    /\ ~AllErrored
    /\ \E i \in 1..Len(executed) : executed[i].err # Nil
    /\ ~wait

\* C4: when executeCheck returns, RUNNING was posted for every uuid of its
\* entry, whatever post failed.
C4_OtherChecksStillProcessed ==
    (pc = "loop" /\ Len(executed) > 0) =>
       \A u \in CurrentEntry.PendingChecks :
          \E i \in 1..Len(posts) :
             posts[i].CheckerUUID = u /\ posts[i].State = "RUNNING"

\* C5: a RUNNING post that fails is the last call of its executeCheck, which
\* returns the error of the post: nothing is fetched, no strategy is called
\* and no terminal state is posted for that uuid.
C5_FailedRunningAborts ==
    \A i \in 1..Len(posts) :
       (posts[i].State = "RUNNING" /\ ~posts[i].ok) =>
          /\ i = Len(posts)
          /\ pc \in { "loop", "returned" }
          /\ executed[Len(executed)].err = PostCheckError(posts[i].changeID, posts[i].psID)
          /\ \A k \in 1..Len(fetches) : fetches[k].uuid # posts[i].CheckerUUID
          /\ \A k \in 1..Len(calls) : calls[k].uuid # posts[i].CheckerUUID
          /\ \A k \in 1..Len(posts) :
                posts[k].CheckerUUID = posts[i].CheckerUUID => posts[k].State = "RUNNING"

\* a call whose first uuid was checked and whose second RUNNING post failed
C5_Witness ==
    /\ Len(posts) = 3
    /\ posts[3].State = "RUNNING"
    /\ ~posts[3].ok
    /\ Len(fetches) = 1
    /\ pc = "loop"

\* the first error of a list of executeCheck results, nil when there is none
FirstError(ex) ==
    IF \A i \in 1..Len(ex) : ex[i].err = Nil THEN Nil
    ELSE ex[CHOOSE i \in 1..Len(ex) :
               ex[i].err # Nil /\ \A j \in 1..(i - 1) : ex[j].err = Nil].err

\* C6: the entries are executed in the order of the shuffled list, and the
\* error processPendingChecks returns is the error of the first executeCheck
\* that failed, nil when none failed.
C6_FirstErrorReturned ==
    (pc = "returned" /\ Len(executed) > 0) =>
       /\ \A i \in 1..Len(executed) : executed[i].entry = pending[i]
       /\ err = FirstError(executed)

\* a round in which two entries failed with different errors
C6_Witness ==
    /\ pc = "returned"
    /\ Len(executed) = 2
    /\ executed[1].err # Nil
    /\ executed[2].err # Nil
    /\ executed[1].err # executed[2].err
    /\ err = executed[1].err

\* a lists the elements of b, each as often as b does
IsPermutation(a, b) ==
    /\ Len(a) = Len(b)
    /\ \E f \in Orders(1..Len(a)) : \A i \in 1..Len(a) : a[i] = b[f[i]]

\* C7: in a round with a non-empty list, the entries executeCheck was called
\* with are a permutation of the list the server returned: each entry once,
\* also after an entry that failed.
C7_EveryEntryExecutedOnce ==
    (pc = "returned" /\ queryErr = Nil /\ Len(snapshot) > 0) =>
       IsPermutation([i \in 1..Len(executed) |-> executed[i].entry], snapshot)

\* a round that ran the second entry of the list first, and it failed
C7_Witness ==
    /\ pc = "returned"
    /\ Len(snapshot) = 2
    /\ Len(executed) = 2
    /\ executed[1].entry = snapshot[2]
    /\ executed[1].err # Nil

\* C8: when the query succeeds with an empty list, processPendingChecks
\* returns wait and a nil error, and no executeCheck, post, fetch or strategy
\* call was made.
C8_NothingPendingMeansWait ==
    (pc = "returned" /\ queryErr = Nil /\ Len(snapshot) = 0) =>
       /\ wait
       /\ err = Nil
       /\ executed = << >>
       /\ posts = << >>
       /\ fetches = << >>
       /\ calls = << >>

\* a round whose query returned the empty list
C8_Witness ==
    /\ pc = "returned"
    /\ queryErr = Nil
    /\ Len(snapshot) = 0
    /\ wait

\* the language of every registered uuid, as checkerLanguage decodes it
LanguageOf == [u \in UUIDs |-> checkerLanguage(u)]

\* the revisions and uuids with a configured language whose filter matches no
\* file of the revision
Unmatched ==
    { ru \in Revisions \X UUIDs :
         /\ LanguageOf[ru[2]].ok
         /\ LanguageOf[ru[2]].lang \in DOMAIN formatters
         /\ Matching(ServerFiles(ru[1]), LanguageOf[ru[2]].lang) = {} }

\* the uuid u has a configured language whose filter matches no file of the
\* patch set of the current entry, and the files were fetched for it
NothingMatches(u) ==
    /\ << CurrentEntry.PatchSet, u >> \in Unmatched
    /\ \E k \in 1..Len(fetches) : fetches[k].uuid = u /\ fetches[k].ok

\* C9: no strategy is called with an empty file list; when the filter of the
\* language matches no file of the fetched revision, checkChange returns
\* errIrrelevant, no strategy is called for the uuid, the state posted is
\* IRRELEVANT, and an acknowledged post of it is no error of executeCheck.
C9_NoEmptyRequest ==
    /\ \A k \in 1..Len(calls) : Len(calls[k].in) > 0
    /\ \A i \in 1..Len(posts) :
          (posts[i].State # "RUNNING" /\ NothingMatches(posts[i].CheckerUUID)) =>
             /\ posts[i].State = "IRRELEVANT"
             /\ \A k \in 1..Len(calls) : calls[k].uuid # posts[i].CheckerUUID
             /\ (i = Len(posts) /\ posts[i].ok /\ pc \in { "loop", "returned" })
                   => executed[Len(executed)].err = Nil
    /\ (pc = "post" /\ NothingMatches(uuid)) =>
          /\ cerr = errIrrelevant
          /\ status = statusIrrelevant

\* a call that ended with an acknowledged IRRELEVANT post
C9_Witness ==
    /\ pc = "loop"
    /\ Len(posts) > 0
    /\ posts[Len(posts)].State = "IRRELEVANT"
    /\ posts[Len(posts)].ok
    /\ NothingMatches(posts[Len(posts)].CheckerUUID)
    /\ executed[Len(executed)].err = Nil

\* the last post is the terminal post of a uuid with a language, for which
\* checkChange returned complaints and no error
VerdictPosted ==
    /\ Len(posts) > 0
    /\ posts[Len(posts)].State # "RUNNING"
    /\ LanguageOf[posts[Len(posts)].CheckerUUID].ok
    /\ cerr = Nil

\* the files a strategy returned whose content differs from the original
Differing(out, Files) == SelectSeq(out, LAMBDA f : f.Content # Files[f.Name].Content)

\* the state posted is SUCCESSFUL without complaints and FAILED with some, and
\* the complaints are about the differing files, in the order of the reply
VerdictOfComplaints ==
    LET p == posts[Len(posts)]
        d == Differing(calls[Len(calls)].out, ServerFiles(CurrentEntry.PatchSet))
    IN  /\ (p.State = "SUCCESSFUL") = (Len(msgs) = 0)
        /\ (p.State = "FAILED") = (Len(msgs) >= 1)
        /\ calls[Len(calls)].uuid = p.CheckerUUID
        /\ Len(msgs) = Len(d)
        /\ \A i \in 1..Len(d) : HasPrefix(msgs[i], d[i].Name \o ": ")

\* C10 as claimed: the message posted is the complaints joined with ", ".
C10_MessageIsJoin ==
    VerdictPosted =>
       /\ VerdictOfComplaints
       /\ \E joined \in { Join(msgs, ", ") } : posts[Len(posts)].Message = joined

\* C10: for a uuid with a language, a matching file and no error, the state
\* posted is SUCCESSFUL exactly without complaints and FAILED exactly with one
\* or more; the message posted is the complaints joined with ", " in the order
\* of the files of the reply when that has at most 1000 characters, and its
\* first 995 characters followed by "..." when it has more.
C10_MessageIsJoinCut ==
    VerdictPosted =>
       /\ VerdictOfComplaints
       /\ \E joined \in { Join(msgs, ", ") } :
             posts[Len(posts)].Message =
                IF Len(joined) > MaxMessage
                THEN SubSeq(joined, 1, KeptMessage) \o "..."
                ELSE joined

\* a FAILED post with two complaints, in the order b, a of the reply
C10_Witness ==
    /\ VerdictPosted
    /\ posts[Len(posts)].State = "FAILED"
    /\ Len(msgs) = 2
    /\ HasPrefix(msgs[1], LongName("b"))
    /\ calls[Len(calls)].out[1].Name = LongName("b")

\* the complaint checkChange makes about the formatted file f
Complaint(f) ==
    f.Name \o ": " \o (IF f.Message = "" THEN "found a difference" ELSE f.Message)

\* C11: once checkChange has returned without error, every formatted file
\* whose content differs from the original, and every formatted file that
\* carries a message of the strategy, has its complaint "<file>: <message>"
\* among the complaints of the verdict.
C11_MessageOrDifferenceComplains ==
    (pc = "post" /\ cerr = Nil) =>
        \A k \in 1..Len(calls) : \A i \in 1..Len(calls[k].out) :
            LET f == calls[k].out[i]
                orig == ServerFiles(CurrentEntry.PatchSet)[f.Name]
            IN  (calls[k].uuid = uuid
                 /\ (f.Content # orig.Content \/ f.Message # ""))
                    => \E m \in 1..Len(msgs) : msgs[m] = Complaint(f)

\* the last post is the terminal post of a uuid with a language
TerminalPosted ==
    /\ Len(posts) > 0
    /\ posts[Len(posts)].State # "RUNNING"
    /\ LanguageOf[posts[Len(posts)].CheckerUUID].ok

\* C12: the message of a terminal post is the joined text of the verdict when
\* that has at most 1000 characters; when it has more, the message is its
\* first 995 characters followed by "...", 998 characters in all.  The message
\* differs from the joined text exactly when the text was cut.
C12_CutEndsWithEllipsis ==
    TerminalPosted =>
       \E joined \in { Join(msgs, ", ") } :
          LET m == posts[Len(posts)].Message
          IN  /\ Len(joined) <= MaxMessage => m = joined
              /\ Len(joined) > MaxMessage =>
                    /\ Len(m) = KeptMessage + 3
                    /\ SubSeq(m, 1, KeptMessage) = SubSeq(joined, 1, KeptMessage)
                    /\ HasSuffix(m, "...")
              /\ (m # joined) = (Len(joined) > MaxMessage)

\* a terminal post whose message was cut: two complaints, 998 characters posted
C12_Witness ==
    /\ TerminalPosted
    /\ Len(msgs) = 2
    /\ Len(Join(msgs, ", ")) > MaxMessage
    /\ Len(posts[Len(posts)].Message) = KeptMessage + 3
    /\ HasSuffix(posts[Len(posts)].Message, "...")

\* what checkerLanguage returns for each uuid a pending entry can carry
DecodedAny == [u \in AnyUUIDs |-> checkerLanguage(u)]

\* the message executeCheck posts for a uuid without a language
UnknownLanguage(u) == "uuid \"" \o u \o "\" has unknown language"

\* C13: the terminal post for a uuid that checkerLanguage does not decode
\* comes right after the RUNNING post for it, its state is FAILED and its
\* message says that the uuid has an unknown language; no GetChange and no
\* strategy call is made for the uuid; and when the post is acknowledged
\* executeCheck goes on with the next uuid of the entry, or returns nil after
\* the last one.
C13_UndecodableFails ==
    \A i \in 1..Len(posts) :
       LET p == posts[i]
       IN  (p.State # "RUNNING" /\ ~DecodedAny[p.CheckerUUID].ok) =>
              /\ i > 1
              /\ posts[i - 1].State = "RUNNING"
              /\ posts[i - 1].CheckerUUID = p.CheckerUUID
              /\ p.State = "FAILED"
              /\ p.Message = UnknownLanguage(p.CheckerUUID)
              /\ \A k \in 1..Len(fetches) : fetches[k].uuid # p.CheckerUUID
              /\ \A k \in 1..Len(calls) : calls[k].uuid # p.CheckerUUID
              /\ (i = Len(posts) /\ p.ok) =>
                    IF remaining # {} THEN pc = "range"
                    ELSE /\ pc \in { "loop", "returned" }
                         /\ executed[Len(executed)].err = Nil

\* FAILED was posted for the commit-footer uuid, which has three fields, and
\* RUNNING has been posted for the next uuid of the entry
C13_Witness ==
    /\ Len(posts) = 3
    /\ posts[2].CheckerUUID = PostCheckerUUID("commitfooter-Change-Id", RepoHash)
    /\ posts[2].State = "FAILED"
    /\ posts[2].Message = UnknownLanguage(posts[2].CheckerUUID)
    /\ posts[3].State = "RUNNING"
    /\ posts[3].CheckerUUID # posts[2].CheckerUUID
    /\ fetches = << >>

\* C14: the terminal post for a uuid with a language that is not in the
\* formatter table is FAILED and carries a message, whatever files the
\* revision has.
C14_UnregisteredFails ==
    \A i \in 1..Len(posts) :
       LET p == posts[i]
       IN  (/\ p.State # "RUNNING"
            /\ DecodedAny[p.CheckerUUID].ok
            /\ DecodedAny[p.CheckerUUID].lang \notin DOMAIN formatters)
              => (p.State = "FAILED" /\ p.Message # "")

\* C15: when a strategy returned an error for a uuid, the terminal post for
\* the uuid is FAILED with the message "tool failure: <error>"; when the post
\* is acknowledged executeCheck goes on with the next uuid of the entry, or
\* returns nil after the last one, so that the entry counts as completed.
C15_StrategyErrorFails ==
    \A k \in 1..Len(calls) :
       calls[k].err # Nil =>
          /\ (pc = "post" /\ uuid = calls[k].uuid) =>
                /\ status = statusFail
                /\ msg = "tool failure: " \o calls[k].err
          /\ \A i \in 1..Len(posts) :
                (posts[i].State # "RUNNING" /\ posts[i].CheckerUUID = calls[k].uuid) =>
                   /\ posts[i].State = "FAILED"
                   /\ posts[i].Message = "tool failure: " \o calls[k].err
                   /\ (i = Len(posts) /\ posts[i].ok) =>
                         IF remaining # {} THEN pc = "range"
                         ELSE /\ pc \in { "loop", "returned" }
                              /\ executed[Len(executed)].err = Nil

\* gofmt exited with status 1, FAILED was posted and acknowledged, and RUNNING
\* has been posted for the next uuid of the entry
C15_Witness ==
    /\ Len(posts) = 3
    /\ Len(calls) = 1
    /\ calls[1].err = "exit status 1"
    /\ posts[2].State = "FAILED"
    /\ posts[2].Message = "tool failure: exit status 1"
    /\ posts[2].ok
    /\ posts[3].State = "RUNNING"

\* the reply out names a file that the revision rev does not have
NamesUnknown(out, rev) ==
    \E i \in 1..Len(out) : out[i].Name \notin DOMAIN ServerFiles(rev)

\* the error of checkChange for the first such file of the reply
UnknownFileError(out, rev) ==
    LET first == CHOOSE i \in 1..Len(out) :
                    /\ out[i].Name \notin DOMAIN ServerFiles(rev)
                    /\ \A j \in 1..(i - 1) : out[j].Name \in DOMAIN ServerFiles(rev)
    IN  "result had unknown file \"" \o out[first].Name \o "\""

TransportFailed ==
    \/ queryErr # Nil
    \/ \E i \in 1..Len(executed) : executed[i].err # Nil
    \/ \E k \in 1..Len(fetches) : ~fetches[k].ok

\* C17: when processPendingChecks returns from a round in which a call to the
\* server failed, its result err is not nil and its result wait is true.
C17_TransportErrorWaits ==
    (pc = "returned" /\ TransportFailed) => (err # Nil /\ wait)

\* the second field of each uuid after the scheme prefix, "" when it has none
HashFieldOf ==
    [u \in AnyUUIDs |->
       LET fields == Split(TrimPrefix(u, checkerScheme \o ":"), "-")
       IN  IF Len(fields) >= 2 THEN fields[2] ELSE ""]

\* the uuid PostChecker's format gives for the language that was decoded for
\* the GetChange call f and the hash field of its uuid
Reencoded(f) == PostCheckerUUID(f.language, HashFieldOf[f.uuid])

\* C18 as claimed: every uuid that checkerLanguage decodes is reproduced by
\* encoding the decoded language and the hash field again.
C18_RoundTrip ==
    \A k \in 1..Len(fetches) : Reencoded(fetches[k]) = fetches[k].uuid

\* C18: every uuid that starts with the scheme prefix and that checkerLanguage
\* decodes is reproduced by encoding the decoded language and the hash field
\* again.
C18_RoundTripWithScheme ==
    \A k \in 1..Len(fetches) :
       HasPrefix(fetches[k].uuid, checkerScheme \o ":")
          => Reencoded(fetches[k]) = fetches[k].uuid

\* checkChange was called for a uuid with the scheme prefix twice, whose
\* language is "fmt:go"
C18_Witness ==
    /\ Len(fetches) = 1
    /\ fetches[1].uuid = "fmt:fmt:go-java"
    /\ fetches[1].language = "fmt:go"
    /\ Reencoded(fetches[1]) = "fmt:fmt:go-java"

\* the text of each uuid after the scheme prefix, split at every "-"
FieldsOf == [u \in AnyUUIDs |-> Split(TrimPrefix(u, checkerScheme \o ":"), "-")]

\* checkChange was called for the uuid of this iteration with the language l
DecodedAs(l) ==
    \E k \in 1..Len(fetches) : fetches[k].uuid = uuid /\ fetches[k].language = l

\* C19: once executeCheck has decoded a uuid that has at least one "-" after
\* the scheme prefix, decoding has succeeded and the language is the text
\* before the first "-".
C19_SplitAtFirstDash ==
    (pc = "post" /\ Len(FieldsOf[uuid]) >= 2) => DecodedAs(FieldsOf[uuid][1])

\* the languages PostChecker is called with that GetFormatter resolves
ResolvedLanguages == { l \in PostedLanguages : GetFormatter(l).ok }

\* C20: once executeCheck has decoded the uuid that PostChecker encodes for a
\* language that GetFormatter resolves, the commit-footer languages among
\* them, decoding has succeeded and given that language; and the uuid of
\* TestSchemeLanguage is decoded as "commitfooter-Change-Id".
C20_FooterLanguageDecoded ==
    pc = "post" =>
       /\ \A l \in ResolvedLanguages : uuid = PostCheckerUUID(l, RepoHash) => DecodedAs(l)
       /\ uuid = TestUUID => DecodedAs("commitfooter-Change-Id")

(***************************************************************************)
(* The commit strategies and the table, called from outside the checker.   *)
(***************************************************************************)
\* the positions of the line feeds of a text
LineFeeds(m) == { i \in 1..Len(m) : SubSeq(m, i, i) = "\n" }

\* the position of the k-th line feed of a text, or one past its end
LineEnd(m, k) ==
    LET lf == LineFeeds(m)
    IN  IF Cardinality(lf) < k THEN Len(m) + 1
        ELSE CHOOSE i \in lf : Cardinality({ j \in lf : j < i }) = k - 1

\* the first line of a text, and its second line ("" when it has none)
SubjectLine(m) == SubSeq(m, 1, LineEnd(m, 1) - 1)
SecondLine(m) == SubSeq(m, LineEnd(m, 1) + 1, LineEnd(m, 2) - 1)

\* the four rules of the commit message strategy, in their order, each with
\* its complaint
MessageRules(m) ==
    << [violated |-> LineFeeds(m) = {},
        complaint |-> "must have multiple lines"],
       [violated |-> Len(SecondLine(m)) > 1,
        complaint |-> "subject and body must be separated by blank line"],
       [violated |-> Len(SubjectLine(m)) > 70,
        complaint |-> "subject must be less than 70 chars"],
       [violated |-> /\ Len(SubjectLine(m)) > 0
                     /\ SubSeq(m, Len(SubjectLine(m)), Len(SubjectLine(m))) = ".",
        complaint |-> "subject must not end in '.'"] >>

\* the strategy calls of the last Format call for the language l
StrategyCalls(l) ==
    IF linterCall.fn # "Format" THEN {}
    ELSE { c \in { linterCall.calls[k] : k \in 1..Len(linterCall.calls) } :
             c.in[1].Language = l }

\* C21: the commit message strategy complains with the complaint of the first
\* violated rule in the order (a) fewer than two lines, (b) second line longer
\* than one character, (c) subject longer than 70 characters, (d) subject ends
\* in a period; it has no complaint exactly when no rule is violated, and then
\* it returns the content unchanged
C21_FirstViolatedRule ==
    \A c \in StrategyCalls("commitmsg") :
        LET m == c.in[1].Content
            rules == MessageRules(m)
            first == { i \in 1..4 : rules[i].violated
                                     /\ \A j \in 1..(i - 1) : ~rules[j].violated }
        IN  /\ c.err = Nil
            /\ Len(c.out) = 1
            /\ \A i \in first : c.out[1].Message = rules[i].complaint
            /\ (c.out[1].Message = "") = (first = {})
            /\ first = {} => c.out[1].Content = m

\* a subject of exactly 70 characters passed, with the content returned as it came
C21_Witness ==
    \E c \in StrategyCalls("commitmsg") :
        /\ Len(SubjectLine(c.in[1].Content)) = 70
        /\ c.out[1].Message = ""
        /\ c.out[1].Content = c.in[1].Content
        /\ c.in[1].Content # ""

\* the positions at which a blank line separates two paragraphs of a text
BlankLines(m) == { i \in 1..(Len(m) - 1) : SubSeq(m, i, i + 1) = "\n\n" }

\* the text after the last blank line of a text that has one
LastParagraph(m) ==
    LET last == CHOOSE i \in BlankLines(m) : \A j \in BlankLines(m) : j <= i
    IN  SubSeq(m, last + 2, Len(m))

\* the lines of a text
LinesOf(p) ==
    [k \in 1..(Cardinality(LineFeeds(p)) + 1) |->
       SubSeq(p, (IF k = 1 THEN 0 ELSE LineEnd(p, k - 1)) + 1, LineEnd(p, k) - 1)]

\* the position of the first colon of a line, or 0
FirstColon(l) ==
    LET at == { i \in 1..Len(l) : SubSeq(l, i, i) = ":" }
    IN  IF at = {} THEN 0 ELSE CHOOSE i \in at : \A j \in at : i <= j

\* the lines of the last paragraph whose text before the first colon is the key
KeyLines(m, key) ==
    LET ls == LinesOf(LastParagraph(m))
    IN  SelectSeq(ls, LAMBDA l : /\ FirstColon(l) > 0
                                 /\ SubSeq(l, 1, FirstColon(l) - 1) = key)

\* the key of a commit footer language
KeyOf(language) == SubSeq(language, Len(footerPrefix) + 1, Len(language))

\* C22: with a non-empty key the commit footer strategy complains of "two
\* paragraphs" when the message has no second paragraph after a blank line;
\* otherwise the first line of the last paragraph with the key before its first
\* colon decides: no complaint when the text after the colon begins with a
\* space, the "space after ':'" complaint when not; and "not found" when no
\* line of the last paragraph has the key
C22_FooterDecidedByFirstKeyLine ==
    \A c \in StrategyCalls("commitfooter-myfooter") :
        LET m == c.in[1].Content
            key == KeyOf(c.in[1].Language)
            complaint == c.out[1].Message
        IN  /\ c.err = Nil
            /\ Len(c.out) = 1
            /\ IF BlankLines(m) = {}
               THEN complaint = "gerrit changes must have two paragraphs."
               ELSE LET ls == KeyLines(m, key)
                    IN  IF Len(ls) = 0
                        THEN complaint = "footer \"" \o key \o "\" not found"
                        ELSE LET value == SubSeq(ls[1], FirstColon(ls[1]) + 1, Len(ls[1]))
                             IN  IF Len(value) > 0 /\ SubSeq(value, 1, 1) = " "
                                 THEN complaint = ""
                                 ELSE complaint = "footer \"" \o value
                                                    \o "\" should have space after ':'"

\* the key was found on a later line of a last paragraph that is not the second
C22_Witness ==
    \E c \in StrategyCalls("commitfooter-myfooter") :
        /\ Cardinality(BlankLines(c.in[1].Content)) > 1
        /\ Len(KeyLines(c.in[1].Content, "myfooter")) > 0
        /\ c.out[1].Message = ""

\* file names on both sides of the filter of the commit strategies
FilterProbes ==
    { "/COMMIT_MSG", "a/COMMIT_MSG", "/COMMIT_MSG.go", "COMMIT_MSG", "main.go", "" }

\* the identifier begins with "commitfooter-"
IsFooterIdentifier(l) == Len(l) >= 13 /\ SubSeq(l, 1, 13) = "commitfooter-"

\* C23: GetFormatter resolves every identifier that begins with
\* "commitfooter-" to a footer strategy built for the call, not taken from the
\* table, whose key is the rest of the identifier as it stands and whose filter
\* matches /COMMIT_MSG alone; every other identifier resolves to its registered
\* entry, or to "not found" when it has none
C23_GetFormatterResolves ==
    linterCall.fn = "GetFormatter" =>
        LET l == linterCall.lang
            cfg == linterCall.cfg
        IN  IF IsFooterIdentifier(l)
            THEN /\ linterCall.ok
                 /\ cfg.Formatter.kind = "commitFooterFormatter"
                 /\ cfg.Formatter.Footer = SubSeq(l, 14, Len(l))
                 /\ \A n \in FilterProbes : MatchString(cfg.Regex, n) = (n = "/COMMIT_MSG")
                 /\ \A r \in DOMAIN formatters : cfg # formatters[r]
            ELSE IF l \in DOMAIN formatters
                 THEN linterCall.ok /\ cfg = formatters[l]
                 ELSE ~linterCall.ok

\* an identifier with a dash in its key resolved to a strategy with that key
C23_Witness ==
    /\ linterCall.fn = "GetFormatter"
    /\ linterCall.lang = "commitfooter-a-b"
    /\ linterCall.ok
    /\ linterCall.cfg.Formatter.Footer = "a-b"

(***************************************************************************)
(* The external tool in a round of the checker.                            *)
(***************************************************************************)
\* the languages whose strategy runs an external tool
ToolLanguages ==
    { l \in DOMAIN formatters : formatters[l].Formatter.kind = "toolFormatter" }

\* the strategy call was a run of the external tool that exited with status
\* zero and left every file it was handed as it was
LeftIdentical(c) ==
    /\ Len(c.in) > 0
    /\ c.in[1].Language \in ToolLanguages
    /\ c.err = Nil
    /\ Len(c.out) = Len(c.in)
    /\ \A i \in 1..Len(c.in) :
          c.out[i].Name = c.in[i].Name /\ c.out[i].Content = c.in[i].Content

\* C24: when the external tool exits with status zero and leaves every file of
\* a non-empty request byte-identical, the check has no complaint and its
\* terminal state is SUCCESSFUL
C24_IdentityToolSucceeds ==
    \A k \in 1..Len(calls) :
       LeftIdentical(calls[k]) =>
          /\ (pc = "post" /\ uuid = calls[k].uuid) =>
                /\ status = statusSuccessful
                /\ msgs = << >>
                /\ msg = ""
          /\ \A i \in 1..Len(posts) :
                (posts[i].State # "RUNNING" /\ posts[i].CheckerUUID = calls[k].uuid) =>
                   /\ posts[i].State = "SUCCESSFUL"
                   /\ posts[i].Message = ""

\* the tool left two files as they were and SUCCESSFUL was posted
C24_Witness ==
    \E k \in 1..Len(calls) :
       /\ LeftIdentical(calls[k])
       /\ Len(calls[k].in) = 2
       /\ \E i \in 1..Len(posts) :
             /\ posts[i].CheckerUUID = calls[k].uuid
             /\ posts[i].State = "SUCCESSFUL"
             /\ posts[i].ok

\* C25: every call of the external tool strategy that created a staging
\* directory has removed it when it returns, whichever way it returns: with
\* the files, or with the error of staging a file, of the tool's run or of
\* reading a file back
C25_StagingDirectoryRemoved ==
    \A l \in ToolLanguages : \A c \in StrategyCalls(l) :
        \/ c.tmpDir = "removed"
        \/ c.tmpDir = "" /\ c.err = StepError("TempDir")

\* the four ways out of a call that created a staging directory
ExitPaths ==
    { Nil, StepError("MkdirAll"), StepError("WriteFile"), "exit status 1",
      StepError("ReadFile") }

\* a call that failed to read the second of two files back, after the tool had
\* run, returned with the directory removed
C25_Witness ==
    \E c \in StrategyCalls("go") :
        /\ Len(c.in) = 2
        /\ c.err = StepError("ReadFile")
        /\ c.err \in ExitPaths
        /\ c.captured # ""
        /\ c.tmpDir = "removed"

(***************************************************************************)
(* Rounds of the checker from end to end.                                  *)
(***************************************************************************)
CommitMsgUUID == PostCheckerUUID("commitmsg", RepoHash)

\* the commit message of a revision
MessageOf(rev) == ServerFiles(rev)["/COMMIT_MSG"].Content

\* the complaint of the first rule a commit message violates, "" when it
\* violates none
FirstComplaint(m) ==
    LET rules == MessageRules(m)
        first == { i \in 1..4 : rules[i].violated /\ \A j \in 1..(i - 1) : ~rules[j].violated }
    IN  IF first = {} THEN "" ELSE rules[CHOOSE i \in first : TRUE].complaint

FirstComplaintOf == [rev \in Revisions |-> FirstComplaint(MessageOf(rev))]

\* the terminal posts of the commit message check of a revision that the server
\* accepted, in an executeCheck whose fetch of the revision succeeded
MessageVerdicts(rev) ==
    { p \in { posts[i] : i \in 1..Len(posts) } :
        /\ p.CheckerUUID = CommitMsgUUID
        /\ p.State # "RUNNING"
        /\ p.ok
        /\ p.changeID = Itoa(rev.ChangeNumber) /\ p.psID = rev.PatchSetID
        /\ \E i \in 1..Len(fetches) : fetches[i].uuid = CommitMsgUUID /\ fetches[i].ok }

\* the check of a revision failed with the one complaint of the rule its commit
\* message violates
FailedWithRule(rev) ==
    /\ MessageVerdicts(rev) # {}
    /\ FirstComplaintOf[rev] # ""
    /\ \A p \in MessageVerdicts(rev) :
          p.State = "FAILED" /\ p.Message = "/COMMIT_MSG: " \o FirstComplaintOf[rev]

\* the check of a revision whose commit message violates no rule succeeded
Succeeded(rev) ==
    /\ FirstComplaintOf[rev] = ""
    /\ \A p \in MessageVerdicts(rev) : p.State = "SUCCESSFUL" /\ p.Message = ""

\* the first patch set of change 1, whose commit message has one line, and its
\* second, uploaded with an amended commit message
FirstPatchSet == Rev(1, 1)
AmendedPatchSet == Rev(1, 2)

PostsOf(u, state) ==
    { i \in 1..Len(posts) : posts[i].CheckerUUID = u /\ (posts[i].State = "RUNNING") = state }

\* every post so far is for the entry in hand, which is of the snapshot, and
\* for a checker UUID the entry lists
PostsInsideSnapshot ==
    posts # << >> =>
       /\ \E k \in 1..Len(snapshot) : snapshot[k] = CurrentEntry
       /\ \A i \in 1..Len(posts) :
             /\ posts[i].CheckerUUID \in CurrentEntry.PendingChecks
             /\ posts[i].changeID = Itoa(CurrentEntry.PatchSet.ChangeNumber)
             /\ posts[i].psID = CurrentEntry.PatchSet.PatchSetID

\* executeCheck has returned without an error for the entry the posts are of
ExecuteReturnedNil ==
    /\ pc \in { "loop", "returned" }
    /\ Len(executed) > 0
    /\ executed[Len(executed)].err = Nil

\* every checker UUID of the entry got one RUNNING post and, right after it,
\* one terminal post, and the server accepted each
OnePairEach ==
    /\ Len(posts) = 2 * Cardinality(CurrentEntry.PendingChecks)
    /\ \A u \in CurrentEntry.PendingChecks :
          /\ Cardinality(PostsOf(u, TRUE)) = 1
          /\ Cardinality(PostsOf(u, FALSE)) = 1
          /\ \A i \in PostsOf(u, TRUE) : PostsOf(u, FALSE) = { i + 1 }
    /\ \A i \in 1..Len(posts) : posts[i].ok

\* processPendingChecks has returned from a round in which the server answered
\* every call
RoundReturnedNil ==
    /\ pc = "returned"
    /\ queryErr = Nil
    /\ \A k \in 1..Len(executed) : executed[k].err = Nil

\* every entry of the snapshot went through executeCheck exactly once
EachEntryOnce ==
    /\ Len(executed) = Len(snapshot)
    /\ \A i \in 1..Len(snapshot) :
          Cardinality({ k \in 1..Len(executed) : executed[k].entry = snapshot[i] }) = 1

\* C27: in a round in which every remote call succeeds, when
\* processPendingChecks returns every entry of the snapshot has gone through
\* executeCheck once, and in it every checker UUID of the entry has got
\* exactly one RUNNING post followed by exactly one terminal post; no post is
\* for an entry or a checker UUID outside the snapshot
C27_OneRunningOneTerminal ==
    [](/\ PostsInsideSnapshot
       /\ ExecuteReturnedNil => OnePairEach
       /\ RoundReturnedNil => EachEntryOnce)

\* a round of two entries, the last with two checker UUIDs, returned
C27_Witness ==
    /\ RoundReturnedNil
    /\ Len(snapshot) = 2
    /\ Len(posts) = 4
    /\ OnePairEach
    /\ EachEntryOnce

(***************************************************************************)
(* Serve.                                                                  *)
(***************************************************************************)
\* C28: whenever Serve sleeps after a round without progress, it sleeps for
\* the delay NewGerritChecker was given
C28_SleepsGivenDelay ==
    pc = "sleeping" => slept * 1000 = delay

\* C29: Serve has no final state: after every round, however it ended, Serve
\* gets back to the top of its loop, and there it sends the next query for
\* pending checks
C29_ServeQueriesAgain ==
    /\ (pc = "returned") ~> (pc = "poll")
    /\ (pc = "poll") ~> (pc \in { "loop", "returned" })

\* Serve is back at the top of its loop after a sleep
C29_Witness ==
    /\ pc = "poll"
    /\ slept = SleepSeconds

\* C30: when a run of the external tool hands its files back without messages
\* and the first of them differs from the original, the complaint about that
\* file carries what the tool printed to its stdout and stderr
C30_ToolOutputIsMessage ==
    \A k \in 1..Len(calls) :
       LET c == calls[k]
       IN  (/\ pc = "post" /\ uuid = c.uuid /\ cerr = Nil
            /\ Len(c.in) > 0 /\ c.in[1].Language \in ToolLanguages
            /\ c.err = Nil
            /\ c.captured # ""
            /\ c.out[1].Content # ServerFiles(CurrentEntry.PatchSet)[c.out[1].Name].Content)
           => /\ Len(msgs) > 0
              /\ msgs[1] = c.out[1].Name \o ": " \o c.captured

(***************************************************************************)
(* The size of a posted message, deleted files, and a terminal post that   *)
(* the server rejects.                                                     *)
(***************************************************************************)
\* C31: every message posted with a terminal state has at most 1000
\* characters, whichever way it was made: joined complaints, a "tool failure"
\* message, or the unknown-language message with the UUID in it
C31_TerminalMessageBounded ==
    \A i \in 1..Len(posts) :
       posts[i].State # "RUNNING" => Len(posts[i].Message) <= MaxMessage

\* the names of the files of a revision that the filter of a language matches,
\* whatever their status
NamesMatched(rev, l) ==
    { n \in DOMAIN ServerFiles(rev) : MatchString(formatters[l].Regex, n) }

\* the strategy calls made for the checker UUID in hand
CallsInHand == { k \in 1..Len(calls) : calls[k].uuid = uuid }

\* checkChange has returned for a checker UUID of a registered language, with
\* the revision fetched
CheckedFetched ==
    /\ pc = "post"
    /\ DecodedAny[uuid].ok
    /\ DecodedAny[uuid].lang \in DOMAIN formatters
    /\ Len(fetches) > 0
    /\ fetches[Len(fetches)].uuid = uuid
    /\ fetches[Len(fetches)].ok

\* C32: checkChange selects the files of the request by name alone: a deleted
\* file whose name matches the filter is in the request, with empty content, so
\* that a revision whose only matching files are deleted calls the strategy
\* and is not IRRELEVANT
C32_DeletedFilesSelected ==
    CheckedFetched =>
       LET rev == CurrentEntry.PatchSet
           names == NamesMatched(rev, DecodedAny[uuid].lang)
       IN  IF names = {}
           THEN status = statusIrrelevant /\ CallsInHand = {}
           ELSE /\ status # statusIrrelevant
                /\ Cardinality(CallsInHand) = 1
                /\ \A k \in CallsInHand :
                      /\ { calls[k].in[i].Name : i \in 1..Len(calls[k].in) } = names
                      /\ Len(calls[k].in) = Cardinality(names)
                      /\ \A i \in 1..Len(calls[k].in) :
                            LET f == ServerFiles(rev)[calls[k].in[i].Name]
                            IN  calls[k].in[i].Content =
                                   IF f.Status = "D" THEN "" ELSE f.Content

\* the tool was run over the deleted file alone
C32_Witness ==
    /\ CheckedFetched
    /\ CurrentEntry.PatchSet = DeletedRev
    /\ \E k \in CallsInHand :
          /\ Len(calls[k].in) = 1
          /\ calls[k].in[1].Name = "old.go"
          /\ calls[k].in[1].Content = ""
    /\ status = statusSuccessful

\* the positions of the terminal posts that the server rejected
RejectedTerminal == { i \in 1..Len(posts) : posts[i].State # "RUNNING" /\ ~posts[i].ok }

\* C33: when the server rejects the terminal post of a checker UUID whose
\* RUNNING post it accepted, executeCheck posts nothing more: it returns the
\* error of the post, the one post the server has accepted for that UUID is
\* the RUNNING one, and the checker UUIDs of the entry not yet ranged over get
\* no post at all
C33_RejectedTerminalEndsEntry ==
    \A i \in RejectedTerminal :
       LET u == posts[i].CheckerUUID
       IN  /\ i = Len(posts)
           /\ pc \in { "loop", "returned" }
           /\ executed[Len(executed)].err = PostCheckError(posts[i].changeID, posts[i].psID)
           /\ { j \in 1..Len(posts) : posts[j].CheckerUUID = u } = { i - 1, i }
           /\ posts[i - 1].State = "RUNNING" /\ posts[i - 1].ok
           /\ u \in remaining
           /\ \A v \in remaining \ { u } :
                 \A j \in 1..Len(posts) : posts[j].CheckerUUID # v
           /\ Len(posts) + 2 * Cardinality(remaining \ { u })
                 = 2 * Cardinality(CurrentEntry.PendingChecks)

\* the terminal post of the first of two checker UUIDs was rejected
C33_Witness ==
    /\ RejectedTerminal = { 2 }
    /\ Cardinality(CurrentEntry.PendingChecks) = 2
    /\ Cardinality(remaining) = 2
    /\ pc = "loop"

====
